---- MODULE Spec2Model ----
(***************************************************************************)
(* Model of the mock light-client header conversions                       *)
(* (crates/ibc/src/mock/header.rs) and of the token-transfer module events *)
(* (crates/ibc/src/applications/transfer/events.rs).                       *)
(*                                                                         *)
(* Both files are pure conversions.  The state of the model is the last    *)
(* conversion that ran: its name, its argument and its result.  Optional   *)
(* values (Rust Option<T>) are sequences of length 0 (None) or 1 (Some).   *)
(* Strings that are put on the wire are sequences of their UTF-8 bytes.    *)
(***************************************************************************)
EXTENDS Integers, Sequences, FiniteSets, TLC

VARIABLES op, input, output, origin

vars == <<op, input, output, origin>>

(***************************************************************************)
(* Bounds of the model.                                                    *)
(***************************************************************************)
MaxRevisionNumber == 1
MaxRevisionHeight == 10
\* stands for the largest nanosecond count Timestamp::from_nanoseconds accepts
MaxTimestampNanos == 16384
MaxAmount == 5

None == <<>>
Some(x) == <<x>>

Ok(v) == [tag |-> "Ok", value |-> v]
Err(e) == [tag |-> "Err", error |-> e]

(***************************************************************************)
(* Height and Timestamp (crate::Height, crate::core::timestamp::Timestamp) *)
(***************************************************************************)
\* Height::new: a height of revision height 0 is not a Height.
HeightNew(revision_number, revision_height) ==
    IF revision_height = 0
    THEN Err([kind |-> "InvalidHeight"])
    ELSE Ok([revision_number |-> revision_number, revision_height |-> revision_height])

\* Height::min: the lowest height of a revision.
HeightMin(revision_number) ==
    [revision_number |-> revision_number, revision_height |-> 1]

\* impl TryFrom<RawHeight> for Height
HeightTryFromRaw(raw_height) ==
    HeightNew(raw_height.revision_number, raw_height.revision_height)

\* impl From<Height> for RawHeight
HeightIntoRaw(height) ==
    [revision_number |-> height.revision_number, revision_height |-> height.revision_height]

\* Timestamp::none / Default: no time set.
TimestampNone == [time |-> None]

\* Timestamp::nanoseconds: 0 when no time is set, else the time's Unix nanoseconds.
TimestampNanoseconds(timestamp) ==
    IF timestamp.time = None THEN 0 ELSE timestamp.time[1]

\* Timestamp::from_nanoseconds: 0 means "not set".
TimestampFromNanoseconds(nanoseconds) ==
    IF nanoseconds = 0 THEN Ok(TimestampNone)
    ELSE IF nanoseconds > MaxTimestampNanos
         THEN Err([kind |-> "ParseTimestampError"])
         ELSE Ok([time |-> Some(nanoseconds)])

(***************************************************************************)
(* Protobuf wire format (prost), as far as the header messages use it.     *)
(***************************************************************************)
WireVarint == 0
WireFixed64 == 1
WireLengthDelimited == 2
WireFixed32 == 5

RECURSIVE EncodeVarint(_)
EncodeVarint(n) ==
    IF n < 128 THEN <<n>> ELSE <<(n % 128) + 128>> \o EncodeVarint(n \div 128)

EncodeKey(field, wire_type) == EncodeVarint(field * 8 + wire_type)

\* a proto3 scalar field: the default value 0 is not written
EncodeUint64Field(field, v) ==
    IF v = 0 THEN <<>> ELSE EncodeKey(field, WireVarint) \o EncodeVarint(v)

\* a proto3 string or bytes field: the empty value is not written
EncodeBytesField(field, bytes) ==
    IF bytes = <<>> THEN <<>>
    ELSE EncodeKey(field, WireLengthDelimited) \o EncodeVarint(Len(bytes)) \o bytes

\* an optional nested message: written whenever it is present, even if empty
EncodeMessageField(field, body) ==
    EncodeKey(field, WireLengthDelimited) \o EncodeVarint(Len(body)) \o body

\* ibc.core.client.v1.Height { uint64 revision_number = 1; uint64 revision_height = 2; }
EncodeRawHeight(raw_height) ==
    EncodeUint64Field(1, raw_height.revision_number)
        \o EncodeUint64Field(2, raw_height.revision_height)

\* ibc.mock.Header { Height height = 1; uint64 timestamp = 2; }
EncodeRawMockHeader(raw) ==
    (IF raw.height = None THEN <<>>
     ELSE EncodeMessageField(1, EncodeRawHeight(raw.height[1])))
        \o EncodeUint64Field(2, raw.timestamp)

\* google.protobuf.Any { string type_url = 1; bytes value = 2; }
EncodeAny(any) ==
    EncodeBytesField(1, any.type_url) \o EncodeBytesField(2, any.value)

DecodeError == Err([kind |-> "DecodeError"])

\* The element of a one-element set.  Only({F(x) : x \in {e}}) is F(e) with e
\* evaluated once, however often F uses it.
Only(S) == CHOOSE x \in S : TRUE

\* prost::encoding::decode_varint: little-endian base-128 groups, the last one
\* without the continuation bit; running out of bytes is an error.
RECURSIVE DecodeVarintFrom(_, _, _, _)
DecodeVarintFrom(bytes, pos, mult, acc) ==
    IF pos > Len(bytes) THEN [ok |-> FALSE, value |-> 0, next |-> pos]
    ELSE Only({IF bytes[pos] < 128
               THEN [ok |-> TRUE, value |-> v, next |-> pos + 1]
               ELSE DecodeVarintFrom(bytes, pos + 1, mult * 128, v)
               : v \in {acc + (bytes[pos] % 128) * mult}})

DecodeVarint(bytes, pos) == DecodeVarintFrom(bytes, pos, 1, 0)

\* prost::encoding::decode_key: wire types above 5 and field number 0 are errors.
DecodeKey(bytes, pos) ==
    Only({IF ~k.ok THEN [ok |-> FALSE, tag |-> 0, wire_type |-> 0, next |-> pos]
          ELSE IF k.value % 8 > WireFixed32
          THEN [ok |-> FALSE, tag |-> 0, wire_type |-> 0, next |-> pos]
          ELSE IF k.value \div 8 = 0
          THEN [ok |-> FALSE, tag |-> 0, wire_type |-> 0, next |-> pos]
          ELSE [ok |-> TRUE, tag |-> k.value \div 8, wire_type |-> k.value % 8,
                next |-> k.next]
          : k \in {DecodeVarint(bytes, pos)}})

\* a length prefix and the payload it announces, which must lie within the buffer
DecodeLengthDelimited(bytes, pos) ==
    Only({IF ~n.ok THEN [ok |-> FALSE, value |-> <<>>, next |-> pos]
          ELSE IF n.next + n.value - 1 > Len(bytes)
          THEN [ok |-> FALSE, value |-> <<>>, next |-> pos]
          ELSE [ok |-> TRUE, value |-> SubSeq(bytes, n.next, n.next + n.value - 1),
                next |-> n.next + n.value]
          : n \in {DecodeVarint(bytes, pos)}})

\* prost::encoding::skip_field for a field the message does not know.
\* (Group wire types 3 and 4 are not produced by any encoder here and are
\* treated as undecodable.)
SkipField(bytes, pos, wire_type) ==
    IF wire_type = WireVarint
    THEN Only({[ok |-> v.ok, next |-> v.next] : v \in {DecodeVarint(bytes, pos)}})
    ELSE IF wire_type = WireFixed64
    THEN IF pos + 8 - 1 > Len(bytes) THEN [ok |-> FALSE, next |-> pos]
         ELSE [ok |-> TRUE, next |-> pos + 8]
    ELSE IF wire_type = WireLengthDelimited
    THEN Only({[ok |-> v.ok, next |-> v.next] : v \in {DecodeLengthDelimited(bytes, pos)}})
    ELSE IF wire_type = WireFixed32
    THEN IF pos + 4 - 1 > Len(bytes) THEN [ok |-> FALSE, next |-> pos]
         ELSE [ok |-> TRUE, next |-> pos + 4]
    ELSE [ok |-> FALSE, next |-> pos]

RawHeightDefault == [revision_number |-> 0, revision_height |-> 0]

\* <RawHeight as prost::Message>::merge: fields in any order, a later
\* occurrence of a scalar replaces an earlier one, unknown fields are skipped.
RECURSIVE MergeRawHeight(_, _, _)
MergeRawHeight(bytes, pos, acc) ==
    IF pos > Len(bytes) THEN Ok(acc)
    ELSE Only({
        IF ~k.ok THEN DecodeError
        ELSE IF k.tag \in {1, 2}
        THEN IF k.wire_type # WireVarint THEN DecodeError
             ELSE Only({IF ~v.ok THEN DecodeError
                        ELSE IF k.tag = 1
                        THEN MergeRawHeight(bytes, v.next,
                                 [acc EXCEPT !.revision_number = v.value])
                        ELSE MergeRawHeight(bytes, v.next,
                                 [acc EXCEPT !.revision_height = v.value])
                        : v \in {DecodeVarint(bytes, k.next)}})
        ELSE Only({IF ~s.ok THEN DecodeError ELSE MergeRawHeight(bytes, s.next, acc)
                   : s \in {SkipField(bytes, k.next, k.wire_type)}})
        : k \in {DecodeKey(bytes, pos)}})

RawMockHeaderDefault == [height |-> None, timestamp |-> 0]

\* the nested height of a raw header: a repeated nested message is merged
\* into the one already read
MergeHeightField(bytes, pos, acc) ==
    Only({IF ~body.ok THEN [ok |-> FALSE, value |-> acc, next |-> pos]
          ELSE Only({IF h.tag = "Err" THEN [ok |-> FALSE, value |-> acc, next |-> pos]
                     ELSE [ok |-> TRUE, value |-> [acc EXCEPT !.height = Some(h.value)],
                           next |-> body.next]
                     : h \in {MergeRawHeight(body.value, 1,
                                  IF acc.height = None THEN RawHeightDefault
                                  ELSE acc.height[1])}})
          : body \in {DecodeLengthDelimited(bytes, pos)}})

\* <RawMockHeader as prost::Message>::merge
RECURSIVE MergeRawMockHeader(_, _, _)
MergeRawMockHeader(bytes, pos, acc) ==
    IF pos > Len(bytes) THEN Ok(acc)
    ELSE Only({
        IF ~k.ok THEN DecodeError
        ELSE IF k.tag = 1
        THEN IF k.wire_type # WireLengthDelimited THEN DecodeError
             ELSE Only({IF ~m.ok THEN DecodeError
                        ELSE MergeRawMockHeader(bytes, m.next, m.value)
                        : m \in {MergeHeightField(bytes, k.next, acc)}})
        ELSE IF k.tag = 2
        THEN IF k.wire_type # WireVarint THEN DecodeError
             ELSE Only({IF ~v.ok THEN DecodeError
                        ELSE MergeRawMockHeader(bytes, v.next,
                                 [acc EXCEPT !.timestamp = v.value])
                        : v \in {DecodeVarint(bytes, k.next)}})
        ELSE Only({IF ~s.ok THEN DecodeError ELSE MergeRawMockHeader(bytes, s.next, acc)
                   : s \in {SkipField(bytes, k.next, k.wire_type)}})
        : k \in {DecodeKey(bytes, pos)}})

\* <RawMockHeader as prost::Message>::decode
DecodeRawMockHeader(bytes) == MergeRawMockHeader(bytes, 1, RawMockHeaderDefault)

AnyDefault == [type_url |-> <<>>, value |-> <<>>]

\* a string field must hold UTF-8; the type URLs here are ASCII
IsUtf8(bytes) == \A i \in 1..Len(bytes) : bytes[i] < 128

\* <Any as prost::Message>::merge
RECURSIVE MergeAny(_, _, _)
MergeAny(bytes, pos, acc) ==
    IF pos > Len(bytes) THEN Ok(acc)
    ELSE Only({
        IF ~k.ok THEN DecodeError
        ELSE IF k.tag \in {1, 2}
        THEN IF k.wire_type # WireLengthDelimited THEN DecodeError
             ELSE Only({IF ~body.ok THEN DecodeError
                        ELSE IF k.tag = 1
                        THEN IF ~IsUtf8(body.value) THEN DecodeError
                             ELSE MergeAny(bytes, body.next,
                                      [acc EXCEPT !.type_url = body.value])
                        ELSE MergeAny(bytes, body.next, [acc EXCEPT !.value = body.value])
                        : body \in {DecodeLengthDelimited(bytes, k.next)}})
        ELSE Only({IF ~s.ok THEN DecodeError ELSE MergeAny(bytes, s.next, acc)
                   : s \in {SkipField(bytes, k.next, k.wire_type)}})
        : k \in {DecodeKey(bytes, pos)}})

\* <Any as prost::Message>::decode
DecodeAny(bytes) == MergeAny(bytes, 1, AnyDefault)

(***************************************************************************)
(* crates/ibc/src/mock/header.rs                                           *)
(***************************************************************************)
\* "/ibc.mock.Header"
MOCK_HEADER_TYPE_URL ==
    <<47, 105, 98, 99, 46, 109, 111, 99, 107, 46, 72, 101, 97, 100, 101, 114>>

\* a default header that starts at revision 1
MockHeaderDefault_Revision1 == [height |-> HeightMin(1), timestamp |-> TimestampNone]

\* impl Default for MockHeader
MockHeaderDefault == [height |-> HeightMin(0), timestamp |-> TimestampNone]

\* MockHeader::new, given the value Timestamp::now() reads off the clock;
\* std_or_test is cfg!(any(test, feature = "std")).
MockHeaderNew(height, std_or_test, now) ==
    IF std_or_test
    THEN [height |-> height, timestamp |-> now]
    ELSE [height |-> height, timestamp |-> TimestampNone]

\* MockHeader::with_timestamp
MockHeaderWithTimestamp(self, timestamp) ==
    [self EXCEPT !.timestamp = timestamp]

\* a conversion that looks at the timestamp before the height
RawToMockHeader_TimestampFirst(raw) ==
    Only({IF timestamp.tag = "Err"
          THEN Err([kind |-> "InvalidPacketTimestamp", source |-> timestamp.error])
          ELSE IF raw.height = None THEN Err([kind |-> "MissingRawHeader"])
          ELSE Only({IF h.tag = "Err" THEN Err([kind |-> "MissingRawHeader"])
                     ELSE Ok([height |-> h.value, timestamp |-> timestamp.value])
                     : h \in {HeightTryFromRaw(raw.height[1])}})
          : timestamp \in {TimestampFromNanoseconds(raw.timestamp)}})

\* impl TryFrom<RawMockHeader> for MockHeader
RawToMockHeader(raw) ==
    Only({IF height = None THEN Err([kind |-> "MissingRawHeader"])
          ELSE Only({IF timestamp.tag = "Err"
                     THEN Err([kind |-> "InvalidPacketTimestamp",
                               source |-> timestamp.error])
                     ELSE Ok([height |-> height[1], timestamp |-> timestamp.value])
                     : timestamp \in {TimestampFromNanoseconds(raw.timestamp)}})
          : height \in {IF raw.height = None THEN None
                        ELSE Only({IF h.tag = "Ok" THEN Some(h.value) ELSE None
                                   : h \in {HeightTryFromRaw(raw.height[1])}})}})

\* a conversion that forgets the timestamp
MockHeaderToRaw_NoTimestamp(value) ==
    [height |-> Some(HeightIntoRaw(value.height)), timestamp |-> 0]

\* impl From<MockHeader> for RawMockHeader
MockHeaderToRaw(value) ==
    [height |-> Some(HeightIntoRaw(value.height)),
     timestamp |-> TimestampNanoseconds(value.timestamp)]

\* <MockHeader as Protobuf<RawMockHeader>>::encode_vec
EncodeVecRaw(header) == EncodeRawMockHeader(MockHeaderToRaw(header))

\* <MockHeader as Protobuf<RawMockHeader>>::decode_vec: decode the message,
\* then convert it; either failure is the Protobuf error.
DecodeVecRaw(bytes) ==
    Only({IF raw.tag = "Err" THEN Err([kind |-> "Decode"])
          ELSE Only({IF header.tag = "Err"
                     THEN Err([kind |-> "TryFrom", source |-> header.error])
                     ELSE header
                     : header \in {RawToMockHeader(raw.value)}})
          : raw \in {DecodeRawMockHeader(bytes)}})

\* a conversion that decodes the value whatever the type URL says
AnyToMockHeader_AnyUrl(raw) ==
    Only({IF header.tag = "Err"
          THEN Err([kind |-> "InvalidRawHeader", source |-> header.error])
          ELSE header
          : header \in {DecodeVecRaw(raw.value)}})

\* impl TryFrom<Any> for MockHeader
AnyToMockHeader(raw) ==
    IF raw.type_url = MOCK_HEADER_TYPE_URL
    THEN Only({IF header.tag = "Err"
               THEN Err([kind |-> "InvalidRawHeader", source |-> header.error])
               ELSE header
               : header \in {DecodeVecRaw(raw.value)}})
    ELSE Err([kind |-> "UnknownHeaderType", header_type |-> raw.type_url])

\* an envelope that holds the encoded height instead of the encoded header
MockHeaderToAny_HeightOnly(header) ==
    [type_url |-> MOCK_HEADER_TYPE_URL,
     value |-> EncodeRawHeight(HeightIntoRaw(header.height))]

\* impl From<MockHeader> for Any
MockHeaderToAny(header) ==
    [type_url |-> MOCK_HEADER_TYPE_URL, value |-> EncodeVecRaw(header)]

\* <MockHeader as Protobuf<Any>>::encode_vec
EncodeVecAny(header) == EncodeAny(MockHeaderToAny(header))

\* <MockHeader as Protobuf<Any>>::decode_vec
DecodeVecAny(bytes) ==
    Only({IF any.tag = "Err" THEN Err([kind |-> "Decode"])
          ELSE Only({IF header.tag = "Err"
                     THEN Err([kind |-> "TryFrom", source |-> header.error])
                     ELSE header
                     : header \in {AnyToMockHeader(any.value)}})
          : any \in {DecodeAny(bytes)}})

(***************************************************************************)
(* crates/ibc/src/applications/transfer/events.rs                          *)
(***************************************************************************)
EVENT_TYPE_PACKET == "fungible_token_packet"
EVENT_TYPE_TIMEOUT == "timeout"
EVENT_TYPE_DENOM_TRACE == "denomination_trace"
EVENT_TYPE_TRANSFER == "ibc_transfer"

\* crate::applications::transfer::MODULE_ID_STR
MODULE_ID_STR == "transfer"

\* the text of a successful acknowledgement (ACK_SUCCESS_B64)
ACK_SUCCESS_B64 == "AQ=="

\* Signer's Display: the address itself
SignerToString(signer) == signer

\* Amount's Display: the decimal digits
AmountToString(amount) == ToString(amount)

\* bool's Display
BoolToString(b) == IF b THEN "true" ELSE "false"

\* PrefixedDenom's Display: the trace path, a slash, the base denomination;
\* the base denomination alone when the trace path is empty
DenomToString(denom) ==
    IF denom.trace_path = "" THEN denom.base_denom
    ELSE denom.trace_path \o "/" \o denom.base_denom

\* TokenTransferAcknowledgement's Display
AckToString(acknowledgement) ==
    IF acknowledgement.variant = "Success" THEN ACK_SUCCESS_B64
    ELSE acknowledgement.message

\* impl From<(K, V)> for ModuleEventAttribute
Attr(k, v) == [key |-> k, value |-> v]

\* impl From<RecvEvent> for ModuleEvent
RecvEventToModuleEvent(ev) ==
    [kind |-> EVENT_TYPE_PACKET,
     attributes |-> <<Attr("module", MODULE_ID_STR),
                      Attr("sender", SignerToString(ev.sender)),
                      Attr("receiver", SignerToString(ev.receiver)),
                      Attr("denom", DenomToString(ev.denom)),
                      Attr("amount", AmountToString(ev.amount)),
                      Attr("success", BoolToString(ev.success))>>]

\* an acknowledge event that lists the amount before the denom
AckEventToModuleEvent_AmountFirst(ev) ==
    [kind |-> EVENT_TYPE_PACKET,
     attributes |-> <<Attr("module", MODULE_ID_STR),
                      Attr("sender", SignerToString(ev.sender)),
                      Attr("receiver", SignerToString(ev.receiver)),
                      Attr("amount", AmountToString(ev.amount)),
                      Attr("denom", DenomToString(ev.denom)),
                      Attr("acknowledgement", AckToString(ev.acknowledgement))>>]

\* impl From<AckEvent> for ModuleEvent
AckEventToModuleEvent(ev) ==
    [kind |-> EVENT_TYPE_PACKET,
     attributes |-> <<Attr("module", MODULE_ID_STR),
                      Attr("sender", SignerToString(ev.sender)),
                      Attr("receiver", SignerToString(ev.receiver)),
                      Attr("denom", DenomToString(ev.denom)),
                      Attr("amount", AmountToString(ev.amount)),
                      Attr("acknowledgement", AckToString(ev.acknowledgement))>>]

\* an acknowledge status event with the two labels exchanged
AckStatusEventToModuleEvent_Swapped(ev) ==
    LET attr_label == IF ev.acknowledgement.variant = "Success"
                      THEN "error" ELSE "success"
    IN  [kind |-> EVENT_TYPE_PACKET,
         attributes |-> <<Attr(attr_label, AckToString(ev.acknowledgement))>>]

\* impl From<AckStatusEvent> for ModuleEvent
AckStatusEventToModuleEvent(ev) ==
    LET attr_label == IF ev.acknowledgement.variant = "Success"
                      THEN "success" ELSE "error"
    IN  [kind |-> EVENT_TYPE_PACKET,
         attributes |-> <<Attr(attr_label, AckToString(ev.acknowledgement))>>]

\* a timeout event that lists the refund amount before the refund denom
TimeoutEventToModuleEvent_AmountFirst(ev) ==
    [kind |-> EVENT_TYPE_TIMEOUT,
     attributes |-> <<Attr("module", MODULE_ID_STR),
                      Attr("refund_receiver", SignerToString(ev.refund_receiver)),
                      Attr("refund_amount", AmountToString(ev.refund_amount)),
                      Attr("refund_denom", DenomToString(ev.refund_denom))>>]

\* impl From<TimeoutEvent> for ModuleEvent
TimeoutEventToModuleEvent(ev) ==
    [kind |-> EVENT_TYPE_TIMEOUT,
     attributes |-> <<Attr("module", MODULE_ID_STR),
                      Attr("refund_receiver", SignerToString(ev.refund_receiver)),
                      Attr("refund_denom", DenomToString(ev.refund_denom)),
                      Attr("refund_amount", AmountToString(ev.refund_amount))>>]

\* a denomination trace event that always carries a trace_hash attribute
DenomTraceEventToModuleEvent_AlwaysHash(ev) ==
    [kind |-> EVENT_TYPE_DENOM_TRACE,
     attributes |-> <<Attr("denom", DenomToString(ev.denom)),
                      Attr("trace_hash",
                           IF ev.trace_hash = None THEN "" ELSE ev.trace_hash[1])>>]

\* impl From<DenomTraceEvent> for ModuleEvent
DenomTraceEventToModuleEvent(ev) ==
    LET first == <<Attr("denom", DenomToString(ev.denom))>>
    IN  [kind |-> EVENT_TYPE_DENOM_TRACE,
         attributes |-> IF ev.trace_hash = None THEN first
                        ELSE Append(first, Attr("trace_hash", ev.trace_hash[1]))]

\* a transfer event that lists the denom before the amount, as Receive does
TransferEventToModuleEvent_DenomFirst(ev) ==
    [kind |-> EVENT_TYPE_TRANSFER,
     attributes |-> <<Attr("sender", SignerToString(ev.sender)),
                      Attr("receiver", SignerToString(ev.receiver)),
                      Attr("denom", DenomToString(ev.denom)),
                      Attr("amount", AmountToString(ev.amount))>>]

\* impl From<TransferEvent> for ModuleEvent
TransferEventToModuleEvent(ev) ==
    [kind |-> EVENT_TYPE_TRANSFER,
     attributes |-> <<Attr("sender", SignerToString(ev.sender)),
                      Attr("receiver", SignerToString(ev.receiver)),
                      Attr("amount", AmountToString(ev.amount)),
                      Attr("denom", DenomToString(ev.denom))>>]

\* impl From<Event> for ModuleEvent
EventToModuleEvent(event) ==
    CASE event.variant = "Recv" -> RecvEventToModuleEvent(event.ev)
      [] event.variant = "Ack" -> AckEventToModuleEvent(event.ev)
      [] event.variant = "AckStatus" -> AckStatusEventToModuleEvent(event.ev)
      [] event.variant = "Timeout" -> TimeoutEventToModuleEvent(event.ev)
      [] event.variant = "DenomTrace" -> DenomTraceEventToModuleEvent(event.ev)
      [] event.variant = "Transfer" -> TransferEventToModuleEvent(event.ev)

(***************************************************************************)
(* Inputs                                                                  *)
(***************************************************************************)
Signers == {"a", "b"}
Amounts == 0..MaxAmount
Denoms == [trace_path : {"", "transfer/channel-0"}, base_denom : {"atom"}]
Acknowledgements ==
    {[variant |-> "Success", message |-> ""]}
        \cup [variant : {"Error"}, message : {"", "insufficient funds", "AQ=="}]
TraceHashes == {None, Some("0F1A"), Some("")}

RecvEvents ==
    [sender : Signers, receiver : Signers, denom : Denoms, amount : Amounts,
     success : BOOLEAN]
AckEvents ==
    [sender : Signers, receiver : Signers, denom : Denoms, amount : Amounts,
     acknowledgement : Acknowledgements]
AckStatusEvents == [acknowledgement : Acknowledgements]
TimeoutEvents == [refund_receiver : Signers, refund_denom : Denoms, refund_amount : Amounts]
DenomTraceEvents == [trace_hash : TraceHashes, denom : Denoms]
TransferEvents == [sender : Signers, receiver : Signers, amount : Amounts, denom : Denoms]

\* nanosecond counts: one, two and three byte varints, and the first count
\* that Timestamp::from_nanoseconds refuses
NanosInputs == {0, 1, 127, 128, 300, MaxTimestampNanos, MaxTimestampNanos + 1}

Heights ==
    [revision_number : 0..MaxRevisionNumber, revision_height : 1..MaxRevisionHeight]

\* every Timestamp: none, or a time at some count of nanoseconds since the
\* Unix epoch (the epoch itself included)
Timestamps ==
    {TimestampNone} \cup {[time |-> Some(n)] : n \in NanosInputs \ {MaxTimestampNanos + 1}}

MockHeaders == [height : Heights, timestamp : Timestamps]

RawHeights ==
    [revision_number : 0..MaxRevisionNumber, revision_height : {0, 1, MaxRevisionHeight}]

RawMockHeaders ==
    [height : {None} \cup {Some(h) : h \in RawHeights}, timestamp : NanosInputs]
\* type URLs: the mock header's, the empty one, a proper prefix of the mock
\* header's, one that differs in the case of a letter ("/ibc.mock.header"),
\* and another mock type's ("/ibc.mock.ClientState")
TypeUrls ==
    {MOCK_HEADER_TYPE_URL,
     <<>>,
     SubSeq(MOCK_HEADER_TYPE_URL, 1, Len(MOCK_HEADER_TYPE_URL) - 1),
     [MOCK_HEADER_TYPE_URL EXCEPT ![11] = 104],
     <<47, 105, 98, 99, 46, 109, 111, 99, 107, 46, 67, 108, 105, 101, 110, 116,
       83, 116, 97, 116, 101>>}

\* value bytes of an envelope: encodings of headers, and byte strings that
\* are not (no height, a height of revision height 0, a repeated height, a
\* timestamp before the height, an unknown field, a timestamp that is too
\* large, a wrong wire type, a truncated message, a truncated varint, field
\* number 0, wire type 7)
ValueInputs ==
    {<<10, 4, 8, 1, 16, 10>>,
     <<10, 2, 16, 1>>,
     <<10, 2, 16, 1, 16, 172, 2>>,
     <<>>,
     <<16, 5>>,
     <<10, 0>>,
     <<10, 2, 8, 1>>,
     <<10, 2, 16, 1, 10, 2, 8, 1>>,
     <<16, 1, 10, 2, 16, 1>>,
     <<10, 2, 16, 1, 24, 7>>,
     <<10, 2, 16, 1>> \o EncodeUint64Field(2, MaxTimestampNanos + 1),
     <<8, 1>>,
     <<10, 4, 8, 1>>,
     <<10, 2, 16, 1, 16, 128>>,
     <<0>>,
     <<15>>}

AnyInputs == [type_url : TypeUrls, value : ValueInputs]

\* encoded envelopes, and byte strings that are no envelope
AnyBytesInputs ==
    {EncodeAny(any) : any \in AnyInputs} \cup {<<10, 16, 47>>, <<8, 1>>, <<10, 1, 200>>}

(***************************************************************************)
(* The state machine: each step runs one conversion on one input.          *)
(* origin remembers the header a conversion started from, while its        *)
(* encoding is decoded again.                                              *)
(***************************************************************************)
Init ==
    /\ op = "init"
    /\ input = None
    /\ output = None
    /\ origin = None

EmitRecv ==
    \E ev \in RecvEvents :
        /\ op' = "Recv"
        /\ input' = ev
        /\ output' = EventToModuleEvent([variant |-> "Recv", ev |-> ev])
        /\ origin' = None

EmitAck ==
    \E ev \in AckEvents :
        /\ op' = "Ack"
        /\ input' = ev
        /\ output' = EventToModuleEvent([variant |-> "Ack", ev |-> ev])
        /\ origin' = None

EmitAckStatus ==
    \E ev \in AckStatusEvents :
        /\ op' = "AckStatus"
        /\ input' = ev
        /\ output' = EventToModuleEvent([variant |-> "AckStatus", ev |-> ev])
        /\ origin' = None

EmitTimeout ==
    \E ev \in TimeoutEvents :
        /\ op' = "Timeout"
        /\ input' = ev
        /\ output' = EventToModuleEvent([variant |-> "Timeout", ev |-> ev])
        /\ origin' = None

EmitDenomTrace ==
    \E ev \in DenomTraceEvents :
        /\ op' = "DenomTrace"
        /\ input' = ev
        /\ output' = EventToModuleEvent([variant |-> "DenomTrace", ev |-> ev])
        /\ origin' = None

EmitTransfer ==
    \E ev \in TransferEvents :
        /\ op' = "Transfer"
        /\ input' = ev
        /\ output' = EventToModuleEvent([variant |-> "Transfer", ev |-> ev])
        /\ origin' = None

HeaderDefault ==
    /\ op' = "default"
    /\ input' = None
    /\ output' = MockHeaderDefault
    /\ origin' = None

\* the clock reads some time; the build has the std feature or it has not
HeaderNew ==
    \E height \in Heights, std_or_test \in BOOLEAN, now \in Timestamps \ {TimestampNone} :
        /\ op' = "new"
        /\ input' = [height |-> height, std_or_test |-> std_or_test, now |-> now]
        /\ output' = MockHeaderNew(height, std_or_test, now)
        /\ origin' = None

\* the header just built gets another timestamp
HeaderWithTimestamp ==
    /\ op \in {"default", "new", "with_timestamp"}
    /\ \E timestamp \in Timestamps :
           /\ op' = "with_timestamp"
           /\ input' = [self |-> output, timestamp |-> timestamp]
           /\ output' = MockHeaderWithTimestamp(output, timestamp)
           /\ origin' = None

HeaderIntoRaw ==
    \E header \in MockHeaders :
        /\ op' = "into_raw"
        /\ input' = header
        /\ output' = MockHeaderToRaw(header)
        /\ origin' = Some(header)

\* the raw header just produced is converted back
RawBack ==
    /\ op = "into_raw"
    /\ op' = "try_from_raw"
    /\ input' = output
    /\ output' = RawToMockHeader(output)
    /\ origin' = origin

HeaderTryFromRaw ==
    \E raw \in RawMockHeaders :
        /\ op' = "try_from_raw"
        /\ input' = raw
        /\ output' = RawToMockHeader(raw)
        /\ origin' = None

HeaderIntoAny ==
    \E header \in MockHeaders :
        /\ op' = "into_any"
        /\ input' = header
        /\ output' = MockHeaderToAny(header)
        /\ origin' = Some(header)

\* the envelope just produced is converted back
AnyBack ==
    /\ op = "into_any"
    /\ op' = "try_from_any"
    /\ input' = output
    /\ output' = AnyToMockHeader(output)
    /\ origin' = origin

HeaderTryFromAny ==
    \E any \in AnyInputs :
        /\ op' = "try_from_any"
        /\ input' = any
        /\ output' = AnyToMockHeader(any)
        /\ origin' = None

HeaderEncodeVec ==
    \E header \in MockHeaders :
        /\ op' = "encode_vec"
        /\ input' = header
        /\ output' = EncodeVecAny(header)
        /\ origin' = Some(header)

\* the bytes just produced are decoded
DecodeBack ==
    /\ op = "encode_vec"
    /\ op' = "decode_vec"
    /\ input' = output
    /\ output' = DecodeVecAny(output)
    /\ origin' = origin

HeaderDecodeVec ==
    \E bytes \in AnyBytesInputs :
        /\ op' = "decode_vec"
        /\ input' = bytes
        /\ output' = DecodeVecAny(bytes)
        /\ origin' = None

Next ==
    \/ EmitRecv
    \/ EmitAck
    \/ EmitAckStatus
    \/ EmitTimeout
    \/ EmitDenomTrace
    \/ EmitTransfer
    \/ HeaderDefault
    \/ HeaderNew
    \/ HeaderWithTimestamp
    \/ HeaderIntoRaw
    \/ RawBack
    \/ HeaderTryFromRaw
    \/ HeaderIntoAny
    \/ AnyBack
    \/ HeaderTryFromAny
    \/ HeaderEncodeVec
    \/ DecodeBack
    \/ HeaderDecodeVec

Spec == Init /\ [][Next]_vars

(***************************************************************************)
(* Properties                                                              *)
(***************************************************************************)
Keys(attributes) == [i \in 1..Len(attributes) |-> attributes[i].key]
Values(attributes) == [i \in 1..Len(attributes) |-> attributes[i].value]

\* C1: a TransferEvent always converts, to an event of kind "ibc_transfer"
\* whose attributes are sender, receiver, amount, denom, in that order, each
\* with the text of the event's field; {a, b, 5, atom} gives a, b, 5, atom.
C1_TransferAttributes ==
    op = "Transfer" =>
        /\ output.kind = "ibc_transfer"
        /\ Keys(output.attributes) = <<"sender", "receiver", "amount", "denom">>
        /\ Values(output.attributes) =
               <<input.sender, input.receiver, AmountToString(input.amount),
                 DenomToString(input.denom)>>
        /\ (input = [sender |-> "a", receiver |-> "b", amount |-> 5,
                     denom |-> [trace_path |-> "", base_denom |-> "atom"]]
               => Values(output.attributes) = <<"a", "b", "5", "atom">>)

C1_Witness ==
    /\ op = "Transfer"
    /\ input = [sender |-> "a", receiver |-> "b", amount |-> 5,
                denom |-> [trace_path |-> "", base_denom |-> "atom"]]
    /\ Len(output.attributes) = 4

\* C2 as stated: the default mock header, at height (0,1) with no timestamp,
\* encodes to 10,16,"/ibc.mock.Header",18,6,10,4,8,1,16,10, which is 24 bytes.
C2_Original ==
    /\ op = "default" =>
           output = [height |-> [revision_number |-> 0, revision_height |-> 1],
                     timestamp |-> [time |-> <<>>]]
    /\ (op = "encode_vec"
        /\ input = [height |-> [revision_number |-> 0, revision_height |-> 1],
                    timestamp |-> [time |-> <<>>]]) =>
           /\ output = <<10, 16, 47, 105, 98, 99, 46, 109, 111, 99, 107, 46, 72, 101,
                         97, 100, 101, 114, 18, 6, 10, 4, 8, 1, 16, 10>>
           /\ Len(output) = 24

\* C2 amended: the default mock header is at height (0,1) with no timestamp,
\* and it encodes to the 24 bytes 10,16,"/ibc.mock.Header",18,4,10,2,16,1.
C2_DefaultHeaderBytes ==
    /\ op = "default" =>
           output = [height |-> [revision_number |-> 0, revision_height |-> 1],
                     timestamp |-> [time |-> <<>>]]
    /\ (op = "encode_vec"
        /\ input = [height |-> [revision_number |-> 0, revision_height |-> 1],
                    timestamp |-> [time |-> <<>>]]) =>
           /\ output = <<10, 16, 47, 105, 98, 99, 46, 109, 111, 99, 107, 46, 72, 101,
                         97, 100, 101, 114, 18, 4, 10, 2, 16, 1>>
           /\ Len(output) = 24

C2_Witness ==
    /\ op = "encode_vec"
    /\ input = [height |-> [revision_number |-> 0, revision_height |-> 1],
                timestamp |-> [time |-> <<>>]]
    /\ Len(output) = 24

\* what field 2 of the envelope of a header holds, read back from the bytes
C3_ValueOf(header, value) ==
    LET raw == DecodeRawMockHeader(value)
        nanos == IF header.timestamp.time = <<>> THEN 0 ELSE header.timestamp.time[1]
    IN  /\ raw.tag = "Ok"
        /\ raw.value.height =
               <<[revision_number |-> header.height.revision_number,
                  revision_height |-> header.height.revision_height]>>
        /\ raw.value.timestamp = nanos
        \* no byte is spent on a field whose value is zero
        /\ value = EncodeRawMockHeader(raw.value)
        /\ (nanos = 0 /\ header.height.revision_number = 0
                /\ header.height.revision_height < 128
               => value = <<10, 2, 16, header.height.revision_height>>)

\* C3: the bytes of a header's envelope hold the type URL "/ibc.mock.Header"
\* in field 1 and the raw header (height as a nested message, timestamp in
\* nanoseconds, zero fields left out) in field 2; the header at height (1,10)
\* with no timestamp gives 10,16,"/ibc.mock.Header",18,6,10,4,8,1,16,10.
C3_EnvelopeBytes ==
    op = "encode_vec" =>
        /\ LET any == DecodeAny(output)
           IN  /\ any.tag = "Ok"
               /\ any.value.type_url =
                      <<47, 105, 98, 99, 46, 109, 111, 99, 107, 46, 72, 101, 97, 100,
                        101, 114>>
               /\ C3_ValueOf(input, any.value.value)
               /\ output = <<10, Len(any.value.type_url)>> \o any.value.type_url
                               \o <<18, Len(any.value.value)>> \o any.value.value
        /\ (input = [height |-> [revision_number |-> 1, revision_height |-> 10],
                     timestamp |-> [time |-> <<>>]]
               => output = <<10, 16, 47, 105, 98, 99, 46, 109, 111, 99, 107, 46, 72,
                             101, 97, 100, 101, 114, 18, 6, 10, 4, 8, 1, 16, 10>>)

C3_Witness ==
    /\ op = "encode_vec"
    /\ input = [height |-> [revision_number |-> 1, revision_height |-> 10],
                timestamp |-> [time |-> <<>>]]
    /\ Len(output) = 26

C5_TypeUrl ==
    op = "try_from_any" =>
        IF input.type_url = <<47, 105, 98, 99, 46, 109, 111, 99, 107, 46, 72, 101, 97,
                              100, 101, 114>>
        THEN LET raw == DecodeRawMockHeader(input.value)
                 good == /\ raw.tag = "Ok"
                         /\ raw.value.height # <<>>
                         /\ raw.value.height[1].revision_height # 0
                         /\ raw.value.timestamp <= MaxTimestampNanos
             IN  /\ good => output.tag = "Ok"
                 /\ ~good => /\ output.tag = "Err"
                             /\ output.error.kind = "InvalidRawHeader"
        ELSE output = [tag |-> "Err",
                       error |-> [kind |-> "UnknownHeaderType",
                                  header_type |-> input.type_url]]

\* a well-formed header encoding under another type URL is refused
C5_Witness ==
    /\ op = "try_from_any"
    /\ input.value = <<10, 4, 8, 1, 16, 10>>
    /\ Len(input.type_url) = 15
    /\ output.tag = "Err"
    /\ output.error.kind = "UnknownHeaderType"

\* C6: an AckStatusEvent gives an event of kind "fungible_token_packet" with
\* one attribute, keyed "success" exactly for a Success acknowledgement and
\* "error" exactly for an Error one, whose value is the acknowledgement's text.
C6_AckStatus ==
    op = "AckStatus" =>
        /\ output.kind = "fungible_token_packet"
        /\ Len(output.attributes) = 1
        /\ (output.attributes[1].key = "success"
               <=> input.acknowledgement.variant = "Success")
        /\ (output.attributes[1].key = "error"
               <=> input.acknowledgement.variant = "Error")
        /\ output.attributes[1].value =
               (IF input.acknowledgement.variant = "Success" THEN "AQ=="
                ELSE input.acknowledgement.message)

C6_Witness ==
    /\ op = "AckStatus"
    /\ input.acknowledgement = [variant |-> "Error", message |-> "insufficient funds"]
    /\ output.attributes[1].key = "error"

\* C7: a DenomTraceEvent gives an event of kind "denomination_trace" whose
\* attributes are denom alone without a trace hash, and denom then trace_hash
\* with one.
C7_DenomTrace ==
    op = "DenomTrace" =>
        /\ output.kind = "denomination_trace"
        /\ output.attributes[1] = [key |-> "denom", value |-> DenomToString(input.denom)]
        /\ (input.trace_hash = <<>> => Keys(output.attributes) = <<"denom">>)
        /\ (input.trace_hash # <<>> =>
               /\ Keys(output.attributes) = <<"denom", "trace_hash">>
               /\ output.attributes[2].value = input.trace_hash[1])
        /\ ((\E i \in 1..Len(output.attributes) : output.attributes[i].key = "trace_hash")
               <=> input.trace_hash # <<>>)

C7_Witness ==
    /\ op = "DenomTrace"
    /\ input.trace_hash = <<"0F1A">>
    /\ Len(output.attributes) = 2

\* C8 as stated: the attributes of a timeout event are refund receiver,
\* refund denom, refund amount, in that order.
C8_Original ==
    op = "Timeout" =>
        /\ output.kind = "timeout"
        /\ Keys(output.attributes) = <<"refund_receiver", "refund_denom", "refund_amount">>

\* C8 amended: the attributes of a timeout event are module (the module's
\* id), refund_receiver, refund_denom, refund_amount, in that order, the last
\* three with the text of the event's fields.
C8_TimeoutAttributes ==
    op = "Timeout" =>
        /\ output.kind = "timeout"
        /\ Keys(output.attributes) =
               <<"module", "refund_receiver", "refund_denom", "refund_amount">>
        /\ Values(output.attributes) =
               <<MODULE_ID_STR, input.refund_receiver, DenomToString(input.refund_denom),
                 AmountToString(input.refund_amount)>>

C8_Witness ==
    /\ op = "Timeout"
    /\ input.refund_amount = 5
    /\ output.attributes[4] = [key |-> "refund_amount", value |-> "5"]

\* the attributes of an event as a set
AttributeSet(attributes) == {attributes[i] : i \in 1..Len(attributes)}

\* C9 as stated: the attributes of an AckEvent are those of the RecvEvent
\* with the same sender, receiver, denom and amount (success flag included),
\* and the acknowledgement.
C9_Original ==
    op = "Ack" =>
        \E success \in BOOLEAN :
            AttributeSet(RecvEventToModuleEvent(
                [sender |-> input.sender, receiver |-> input.receiver,
                 denom |-> input.denom, amount |-> input.amount,
                 success |-> success]).attributes)
                \subseteq AttributeSet(output.attributes)

\* C9 amended: a RecvEvent gives kind "fungible_token_packet" with
\* attributes module, sender, receiver, denom, amount, success; an AckEvent
\* with the same sender, receiver, denom and amount gives the same kind, and
\* its attributes are the Receive attributes without the success flag,
\* followed by the acknowledgement.
C9_RecvAck ==
    /\ op = "Recv" =>
           /\ output.kind = "fungible_token_packet"
           /\ Keys(output.attributes) =
                  <<"module", "sender", "receiver", "denom", "amount", "success">>
           /\ Values(output.attributes) =
                  <<MODULE_ID_STR, input.sender, input.receiver,
                    DenomToString(input.denom), AmountToString(input.amount),
                    IF input.success THEN "true" ELSE "false">>
    /\ op = "Ack" =>
           /\ output.kind = "fungible_token_packet"
           /\ \A success \in BOOLEAN :
                  output.attributes =
                      SubSeq(RecvEventToModuleEvent(
                                 [sender |-> input.sender, receiver |-> input.receiver,
                                  denom |-> input.denom, amount |-> input.amount,
                                  success |-> success]).attributes, 1, 5)
                          \o <<[key |-> "acknowledgement",
                                value |-> AckToString(input.acknowledgement)]>>

C9_Witness ==
    /\ op = "Ack"
    /\ input.acknowledgement.variant = "Error"
    /\ input.amount = 5
    /\ Len(output.attributes) = 6

\* C10: a raw header without a height, or with a height that is no Height,
\* fails with MissingRawHeader, whatever its timestamp; one with a Height and
\* a timestamp that does not convert fails with InvalidPacketTimestamp; it
\* converts only when both do, and then to that height and timestamp.
C10_TryFromRaw ==
    op = "try_from_raw" =>
        LET height_ok == /\ input.height # <<>>
                         /\ input.height[1].revision_height # 0
            timestamp_ok == input.timestamp <= MaxTimestampNanos
        IN  /\ ~height_ok =>
                   output = [tag |-> "Err", error |-> [kind |-> "MissingRawHeader"]]
            /\ (height_ok /\ ~timestamp_ok) =>
                   /\ output.tag = "Err"
                   /\ output.error.kind = "InvalidPacketTimestamp"
            /\ (height_ok /\ timestamp_ok) =>
                   /\ output.tag = "Ok"
                   /\ output.value.height = input.height[1]
                   /\ output.value.timestamp =
                          [time |-> IF input.timestamp = 0 THEN <<>>
                                    ELSE <<input.timestamp>>]

\* no height and a timestamp that does not convert: the height is reported
C10_Witness ==
    /\ op = "try_from_raw"
    /\ input.height = <<[revision_number |-> 0, revision_height |-> 0]>>
    /\ input.timestamp > MaxTimestampNanos
    /\ output.tag = "Err"
    /\ output.error.kind = "MissingRawHeader"

====
